---- MODULE Spec2Model ----
(***************************************************************************)
(* Booking-slot availability of the dog grooming salon.                    *)
(*                                                                         *)
(* The state is the part of the database that get_available_booking_slots  *)
(* (dog_grooming_app/utils.py) reads -- the opening hours of the Contact   *)
(* row, the Service rows and the Booking rows -- together with the locals  *)
(* of one call of the function, whose while-loop is taken one iteration    *)
(* per step so that its termination can be examined.                       *)
(*                                                                         *)
(* Times of day are minutes since midnight (datetime.time at minute        *)
(* resolution), durations are minutes (datetime.timedelta).                *)
(***************************************************************************)
EXTENDS Integers, Sequences, FiniteSets, TLC

(***************************************************************************)
(* Program constants                                                       *)
(***************************************************************************)
BREAK == 15
BOOKING_SLOT_SEARCH_TIME_INTERVAL == 15
\* a datetime.time holds a time of day only: .time() drops the date
MinutesPerDay == 1440
\* a TimeField with null=True that holds no value (Python None)
None == 0 - 1

(***************************************************************************)
(* Bounds and input domains                                                *)
(***************************************************************************)
MaxBookings == 2
MaxIterations == 16

\* the two calendar days of the model fall on the same day of the week
Days == {1, 2}
\* ids a request can name; no Service row ever has id 3
ServiceIds == {1, 2, 3}
\* (opening hour, closing hour) of that day of the week
DaySchedules ==
    { <<None, 540>>, <<480, None>>, <<None, None>>,
      <<480, 540>>, <<480, 600>>, <<1320, 1380>>, <<1320, 1439>> }
\* Service.max_duration of the Service rows, by id
ServiceCatalogs ==
    { (1 :> 15 @@ 2 :> 120), (1 :> 45 @@ 2 :> 1380) }
\* Booking.time values a request can post
BookingTimes == {15, 495, 1390}

(***************************************************************************)
(* State                                                                   *)
(***************************************************************************)
VARIABLES
    contact,                 \* Contact row 'x': opening and closing hour of the day
    services,                \* Service rows: id |-> max_duration
    bookings,                \* Booking rows in id order
    pc,                      \* position of the call of get_available_booking_slots
    day,                     \* argument: the requested day
    service_id,              \* argument: the requested service
    opening_hour,            \* locals of the call ...
    closing_hour,
    duration_without_break,
    duration_with_break,
    booked_slots,
    cur_time,
    inital_times,
    iterations,              \* number of executions of the loop body so far
    result,                  \* the returned list
    prev,                    \* last call returned since the last write, if any
    response,                \* the HTTP response to the last request
    caller,                  \* the user whose request runs the call
    selected,                \* per user, the option picked in the booking form
    listed,                  \* ids of the bookings posted for an option while it was listed
    contact_ids,             \* primary keys of the Contact rows
    prices,                  \* Service rows: id |-> the three prices
    last_service_id,         \* the last value of the AutoField of Service
    users,                   \* CustomUser rows: pk |-> is_active, is_staff
    tokens,                  \* activation links sent so far
    clock,                   \* timestamp of the token generator
    service_prices,          \* Booking rows: id |-> dog_size and service_price
    used,                    \* the (uid, token) pairs that have activated an account
    profiles,                \* CustomUser rows: pk |-> first_name and email
    gallery,                 \* number of images in the gallery folder
    context                  \* the template context of the last gallery page

dbvars == <<contact, services, bookings>>
callvars == <<pc, day, service_id, opening_hour, closing_hour, duration_without_break,
              duration_with_break, booked_slots, cur_time, inital_times, iterations,
              result>>
extravars == <<service_prices, used, profiles, gallery, context>>
sitevars == <<response, caller, selected, listed, contact_ids, prices, last_service_id,
             users, tokens, clock, extravars>>
vars == <<contact, services, bookings, pc, day, service_id, opening_hour, closing_hour,
          duration_without_break, duration_with_break, booked_slots, cur_time,
          inital_times, iterations, result, prev,
          response, caller, selected, listed, contact_ids, prices, last_service_id,
          users, tokens, clock, service_prices, used, profiles, gallery, context>>

NoCall == [day |-> 0, service_id |-> 0, result |-> <<>>, repeated |-> FALSE]

\* the two visitors of the booking page
Visitors == {1, 2}

NoSelection == [date |-> 0, service |-> 0, time |-> ""]

\* an HTTP response: status code, message of the body or name of the page
\* redirected to, and the booking_slots field of the body
Response(st, msg, slots) == [status |-> st, message |-> msg, booking_slots |-> slots]

NoResponse == Response(0, "", <<>>)

\* no gallery page has been rendered
NoContext == [page |-> 0, num_pages |-> 0, pages |-> <<>>]

(***************************************************************************)
(* Time arithmetic and formatting                                          *)
(***************************************************************************)
\* (datetime.datetime.combine(day, t) + datetime.timedelta(minutes=d)).time()
TimeAdd(t, d) == (t + d) % MinutesPerDay

Pad2(n) == IF n < 10 THEN "0" \o ToString(n) ELSE ToString(n)

\* datetime.time.strftime(t, '%H:%M')
strftime(t) == Pad2(t \div 60) \o ":" \o Pad2(t % 60)

(***************************************************************************)
(* Database lookups                                                        *)
(***************************************************************************)
get_opening_hour_for_day(c) == c[1]

get_closing_hour_for_day(c) == c[2]

\* Service.objects.get(id=service_id); max_duration -> the two timedeltas
get_duration_of_service(sid) == <<services[sid], services[sid] + BREAK>>

RECURSIVE InsertByTime(_, _)
InsertByTime(sorted, b) ==
    IF sorted = <<>> THEN <<b>>
    ELSE IF Head(sorted).time <= b.time
         THEN <<Head(sorted)>> \o InsertByTime(Tail(sorted), b)
         ELSE <<b>> \o sorted

RECURSIVE OrderByTime(_)
\* .order_by('time')
OrderByTime(rows) ==
    IF rows = <<>> THEN <<>>
    ELSE InsertByTime(OrderByTime(SubSeq(rows, 1, Len(rows) - 1)), rows[Len(rows)])

FilterDate(rows, d) == SelectSeq(rows, LAMBDA b : b.date = d)

get_booked_time_slots(d, dwb) ==
    LET rows == OrderByTime(FilterDate(bookings, d))
    IN  [i \in 1..Len(rows) |-> <<rows[i].time, TimeAdd(rows[i].time, dwb)>>]

(***************************************************************************)
(* get_available_booking_slots                                             *)
(***************************************************************************)
ClosedSlots == << <<"", "Closed">> >>

NoFreeSlots == << <<"", "No free slots">> >>

\* variant: closed only when both hours are absent
IsClosed_BothAbsent(o, c) == o = None /\ c = None

\* `if not opening_hour or not closing_hour`
IsClosed(o, c) == o = None \/ c = None

\* the test of one booked slot against the candidate, lines 98-99
Coincides(b, c, cwd) ==
    \/ (b[1] <= c /\ c < b[2])
    \/ (b[1] < cwd /\ cwd <= b[2])

\* variant: the break leaves the for-loop after the first booked slot
TimeslotAvailable_FirstOnly(c, cwd, slots) ==
    slots = <<>> \/ ~Coincides(slots[1], c, cwd)

\* variant: every booked slot overwrites the flag, so the last one decides
TimeslotAvailable_LastDecides(c, cwd, slots) ==
    slots = <<>> \/ ~Coincides(slots[Len(slots)], c, cwd)

\* timeslot_available after the for-loop over booked_slots
TimeslotAvailable(c, cwd, slots) ==
    \A i \in 1..Len(slots) : ~Coincides(slots[i], c, cwd)

\* the tuple appended for an available candidate
SlotOption(c, d) == <<strftime(c), strftime(c) \o " - " \o strftime(TimeAdd(c, d))>>

\* the while condition
LoopCondition(c, d, closing) == TimeAdd(c, d) <= closing

\* variant: the step of the earlier version of the loop (line 113)
NextCurTime_ByDuration(c, d) == TimeAdd(c, d)

\* the step at the end of the loop body
NextCurTime(c, d) == TimeAdd(c, BOOKING_SLOT_SEARCH_TIME_INTERVAL)

\* lines 76-93: the lookups, from the call up to the first test of the while condition
ReadInputs(d, sid) ==
    /\ day' = d
    /\ service_id' = sid
    /\ opening_hour' = get_opening_hour_for_day(contact)
    /\ closing_hour' = get_closing_hour_for_day(contact)
    /\ iterations' = 0
    /\ IF IsClosed(get_opening_hour_for_day(contact), get_closing_hour_for_day(contact))
       THEN /\ pc' = "returned"
            /\ result' = ClosedSlots
            /\ duration_without_break' = 0
            /\ duration_with_break' = 0
            /\ booked_slots' = <<>>
            /\ cur_time' = 0
       ELSE IF sid \notin DOMAIN services
       THEN /\ pc' = "raised"               \* Service.DoesNotExist
            /\ result' = <<>>
            /\ duration_without_break' = 0
            /\ duration_with_break' = 0
            /\ booked_slots' = <<>>
            /\ cur_time' = 0
       ELSE /\ pc' = "loop"
            /\ result' = <<>>
            /\ duration_without_break' = get_duration_of_service(sid)[1]
            /\ duration_with_break' = get_duration_of_service(sid)[2]
            /\ booked_slots' = get_booked_time_slots(d, get_duration_of_service(sid)[2])
            /\ cur_time' = get_opening_hour_for_day(contact)
    /\ UNCHANGED dbvars

\* variant: the list of slots lives across calls and is never cleared
GetAvailableBookingSlots_StaleList(d, sid) ==
    /\ pc # "loop"
    /\ inital_times' = inital_times
    /\ ReadInputs(d, sid)

\* lines 75-93: a call starts with a fresh list
GetAvailableBookingSlots(d, sid) ==
    /\ pc # "loop"
    /\ inital_times' = <<>>
    /\ ReadInputs(d, sid)

\* lines 94-112: one execution of the loop body
LoopIteration ==
    /\ pc = "loop"
    /\ iterations < MaxIterations
    /\ LoopCondition(cur_time, duration_without_break, closing_hour)
    /\ inital_times' =
          IF TimeslotAvailable(cur_time, TimeAdd(cur_time, duration_with_break), booked_slots)
          THEN Append(inital_times, SlotOption(cur_time, duration_without_break))
          ELSE inital_times
    /\ cur_time' = NextCurTime(cur_time, duration_without_break)
    /\ iterations' = iterations + 1
    /\ UNCHANGED <<pc, day, service_id, opening_hour, closing_hour, duration_without_break,
                   duration_with_break, booked_slots, result>>
    /\ UNCHANGED dbvars

\* lines 116-118: the while condition fails and the function returns
LoopExit ==
    /\ pc = "loop"
    /\ ~LoopCondition(cur_time, duration_without_break, closing_hour)
    /\ result' = IF Len(inital_times) = 0 THEN NoFreeSlots ELSE inital_times
    /\ pc' = "returned"
    /\ UNCHANGED <<day, service_id, opening_hour, closing_hour, duration_without_break,
                   duration_with_break, booked_slots, cur_time, inital_times, iterations>>
    /\ UNCHANGED dbvars

(***************************************************************************)
(* Writes                                                                  *)
(***************************************************************************)
\* Booking.objects.create(**validated_data): any service, date and time
CreateBooking(s, d, t) ==
    /\ pc # "loop"
    /\ Len(bookings) < MaxBookings
    /\ s \in DOMAIN services
    /\ bookings' = Append(bookings, [service |-> s, date |-> d, time |-> t, cancelled |-> FALSE])
    /\ UNCHANGED <<contact, services>>
    /\ UNCHANGED callvars

(***************************************************************************)
(* Specifications                                                          *)
(***************************************************************************)
\* no request has been made yet
InitIdle ==
    /\ pc = "idle"
    /\ day = 0
    /\ service_id = 0
    /\ opening_hour = None
    /\ closing_hour = None
    /\ duration_without_break = 0
    /\ duration_with_break = 0
    /\ booked_slots = <<>>
    /\ cur_time = 0
    /\ inital_times = <<>>
    /\ iterations = 0
    /\ result = <<>>
    /\ prev = NoCall
    /\ response = NoResponse
    /\ caller = 0
    /\ selected = [u \in Visitors |-> NoSelection]
    /\ listed = {}

\* the parts of the site that the requests on the slots, the admin API and
\* the accounts below leave alone
InitExtras ==
    /\ service_prices = <<>>
    /\ used = {}
    /\ profiles = <<>>
    /\ gallery = 0
    /\ context = NoContext

InitRequests == InitIdle /\ InitExtras

InitCall ==
    /\ InitRequests
    /\ contact_ids = {"x"}
    /\ prices = <<>>
    /\ last_service_id = 2
    /\ users = <<>>
    /\ tokens = {}
    /\ clock = 0

Init ==
    /\ contact \in DaySchedules
    /\ services \in ServiceCatalogs
    /\ bookings = <<>>
    /\ InitCall

Call ==
    /\ \E d \in Days, sid \in ServiceIds : GetAvailableBookingSlots(d, sid)
    /\ UNCHANGED prev
    /\ UNCHANGED sitevars

Iterate ==
    /\ LoopIteration
    /\ UNCHANGED prev
    /\ UNCHANGED sitevars

Return ==
    /\ LoopExit
    /\ UNCHANGED prev
    /\ UNCHANGED sitevars

Write ==
    /\ \E s \in ServiceIds, d \in Days, t \in BookingTimes : CreateBooking(s, d, t)
    /\ UNCHANGED prev
    /\ UNCHANGED sitevars

Next == Call \/ Iterate \/ Return \/ Write

Spec == Init /\ [][Next]_vars

(***************************************************************************)
(* The same operations with the history of returned calls kept in prev:    *)
(* prev is the last call that returned since the last write, and whether   *)
(* the returned call before it, with no write in between, had the same     *)
(* arguments.                                                              *)
(***************************************************************************)
RepeatSchedules == { <<None, 540>>, <<480, 540>>, <<1320, 1380>> }

SameArguments == prev # NoCall /\ prev.day = day' /\ prev.service_id = service_id'

Returning == [day |-> day', service_id |-> service_id', result |-> result',
              repeated |-> SameArguments]

InitRepeat ==
    /\ contact \in RepeatSchedules
    /\ services \in ServiceCatalogs
    /\ bookings = <<>>
    /\ InitCall

CallTracked ==
    /\ \E d \in Days, sid \in ServiceIds : GetAvailableBookingSlots(d, sid)
    /\ prev' = IF pc' = "returned" THEN Returning ELSE prev
    /\ UNCHANGED sitevars

IterateTracked ==
    /\ LoopIteration
    /\ UNCHANGED prev
    /\ UNCHANGED sitevars

ReturnTracked ==
    /\ LoopExit
    /\ prev' = Returning
    /\ UNCHANGED sitevars

WriteTracked ==
    /\ \E s \in ServiceIds, d \in Days, t \in BookingTimes : CreateBooking(s, d, t)
    /\ prev' = NoCall
    /\ UNCHANGED sitevars

NextRepeat == CallTracked \/ IterateTracked \/ ReturnTracked \/ WriteTracked

SpecRepeat == InitRepeat /\ [][NextRepeat]_vars

(***************************************************************************)
(* Vocabulary of the properties                                            *)
(***************************************************************************)
TimesOfDay == 0..(MinutesPerDay - 1)

TimeTable == [t \in TimesOfDay |-> strftime(t)]

\* the time of day an 'HH:MM' value stands for
ParseTime(s) == CHOOSE t \in TimesOfDay : TimeTable[t] = s

Open == opening_hour # None /\ closing_hour # None

Returned == pc = "returned"

\* the entries of a returned list that are slots and not a sentinel
RealSlots(r) == SelectSeq(r, LAMBDA o : o[1] # "")

\* the first instant after b[1] at which the clock shows b[2]: the end of the
\* booked interval that starts at b[1] and whose end time of day is b[2]
EndInstant(b) == IF b[2] > b[1] THEN b[2] ELSE b[2] + MinutesPerDay

\* [start, start + dwb) and the booked interval b share an instant
Overlaps(start, dwb, b) == start < EndInstant(b) /\ b[1] < start + dwb

(***************************************************************************)
(* C1: no returned slot [start, start + duration_with_break) shares an     *)
(* instant with a booked interval [bstart, bend) of the same day.          *)
(***************************************************************************)
C1_NoReturnedSlotOverlapsBooked ==
    (Returned /\ Open) =>
        \A i \in 1..Len(result) :
            result[i][1] # "" =>
                \A j \in 1..Len(booked_slots) :
                    ~Overlaps(ParseTime(result[i][1]), duration_with_break, booked_slots[j])

(***************************************************************************)
(* C2: on an open day the returned slots are exactly, in order, the        *)
(* candidates c = opening + k * interval with c + duration_without_break   *)
(* <= closing for which no booked interval has bstart <= c < bend or       *)
(* bstart < c + duration_with_break <= bend, each as (HH:MM, "HH:MM -      *)
(* HH:MM").                                                                *)
(***************************************************************************)
C2_Free(c) ==
    \A j \in 1..Len(booked_slots) :
        ~ \/ (booked_slots[j][1] <= c /\ c < booked_slots[j][2])
          \/ (booked_slots[j][1] < c + duration_with_break
                /\ c + duration_with_break <= booked_slots[j][2])

RECURSIVE C2_ExpectedFrom(_)
C2_ExpectedFrom(c) ==
    IF c + duration_without_break > closing_hour THEN <<>>
    ELSE (IF C2_Free(c)
          THEN << <<TimeTable[c],
                    TimeTable[c] \o " - " \o TimeTable[c + duration_without_break]>> >>
          ELSE <<>>)
         \o C2_ExpectedFrom(c + BOOKING_SLOT_SEARCH_TIME_INTERVAL)

C2_ReturnsExactlyTheFreeCandidates ==
    (Returned /\ Open) => RealSlots(result) = C2_ExpectedFrom(opening_hour)

(***************************************************************************)
(* C3: when the opening or the closing hour of the day is absent the call  *)
(* returns exactly [("", "Closed")], whatever the service id and the       *)
(* bookings, without looking up the service (an unknown id raises nothing) *)
(* or the bookings.                                                        *)
(***************************************************************************)
C3_ClosedDayReturnsClosed ==
    (pc # "idle" /\ (opening_hour = None \/ closing_hour = None)) =>
        /\ pc = "returned"
        /\ result = << <<"", "Closed">> >>
        /\ booked_slots = <<>>
        /\ iterations = 0

C3_Witness ==
    /\ pc = "returned"
    /\ opening_hour # None
    /\ closing_hour = None
    /\ service_id \notin DOMAIN services
    /\ \E i \in 1..Len(bookings) : bookings[i].date = day
    /\ result = << <<"", "Closed">> >>

(***************************************************************************)
(* C4: the returned list is never empty; on an open day with no accepted   *)
(* candidate it is exactly [("", "No available slots")], otherwise every   *)
(* entry is a real slot whose value is an HH:MM string.                    *)
(***************************************************************************)
C4_SentinelOrRealSlots ==
    Returned =>
        /\ result # <<>>
        /\ (Open /\ inital_times = <<>>) => result = << <<"", "No available slots">> >>
        /\ (Open /\ inital_times # <<>>) =>
              \A i \in 1..Len(result) : \E t \in TimesOfDay : result[i][1] = TimeTable[t]

(***************************************************************************)
(* C5: when duration_without_break exceeds closing - opening the call      *)
(* returns no real slot, only the no-slots sentinel.                       *)
(***************************************************************************)
C5_TooLongServiceGetsNoSlot ==
    (Returned /\ Open /\ opening_hour <= closing_hour
        /\ duration_without_break > closing_hour - opening_hour) =>
        /\ Len(result) = 1
        /\ result[1][1] = ""

(***************************************************************************)
(* C6: the candidate loop runs at most (closing - opening) / interval + 1  *)
(* times.                                                                  *)
(***************************************************************************)
C6_IterationsBounded ==
    (pc \in {"loop", "returned"} /\ Open /\ opening_hour <= closing_hour) =>
        iterations * BOOKING_SLOT_SEARCH_TIME_INTERVAL
            <= (closing_hour - opening_hour) + BOOKING_SLOT_SEARCH_TIME_INTERVAL

(***************************************************************************)
(* C7: the real slots of a returned list are strictly ascending by start   *)
(* time of day.                                                            *)
(***************************************************************************)
C7_SlotsStrictlyAscending ==
    (Returned /\ Open) =>
        \A i, j \in 1..Len(RealSlots(result)) :
            i < j => ParseTime(RealSlots(result)[i][1]) < ParseTime(RealSlots(result)[j][1])

(***************************************************************************)
(* C8: the candidates lie on the grid opening + k * 15 minutes: the k-th   *)
(* candidate probed is opening + k * 15 whatever the service duration and  *)
(* the bookings, and every returned start is such a time of day.           *)
(***************************************************************************)
C8_Grid == { TimeTable[TimeAdd(opening_hour, k * 15)] : k \in 0..iterations }

C8_StartsOnTheSearchGrid ==
    (pc \in {"loop", "returned"} /\ Open) =>
        /\ cur_time = TimeAdd(opening_hour, iterations * 15)
        /\ \A i \in 1..Len(inital_times) : inital_times[i][1] \in C8_Grid
        /\ Returned => \A i \in 1..Len(result) : result[i][1] # "" => result[i][1] \in C8_Grid

C8_Witness ==
    /\ Returned
    /\ Open
    /\ duration_without_break = 45
    /\ booked_slots # <<>>
    /\ Len(RealSlots(result)) >= 2

(***************************************************************************)
(* C9: a booked interval that the candidate only touches does not reject   *)
(* it: neither one that ends at the candidate's start (cur_time = bend)    *)
(* nor one that starts at the candidate's end with break (cur_time +       *)
(* duration_with_break = bstart).                                          *)
(***************************************************************************)
C9_TouchingIntervalsDoNotConflict ==
    (pc = "loop" /\ LoopCondition(cur_time, duration_without_break, closing_hour)) =>
        \A j \in 1..Len(booked_slots) :
            LET b == booked_slots[j]
                cwd == TimeAdd(cur_time, duration_with_break)
            IN  /\ cur_time = b[2] => ~Coincides(b, cur_time, cwd)
                /\ cwd = b[1] => ~Coincides(b, cur_time, cwd)

(***************************************************************************)
(* C10: a call is a pure read: no step of a call changes a Contact,        *)
(* Service or Booking row, and a call that returns for the same day and    *)
(* service id as the previous returned call, with no write in between,     *)
(* returns the identical list.                                             *)
(***************************************************************************)
C10_PureRead ==
    [][ /\ (callvars' # callvars) => (dbvars' = dbvars)
        /\ (pc' = "returned" /\ prev # NoCall
              /\ prev.day = day' /\ prev.service_id = service_id')
           => result' = prev.result ]_vars

C10_Witness ==
    /\ pc = "returned"
    /\ Open
    /\ iterations > 0
    /\ bookings # <<>>
    /\ Len(RealSlots(result)) >= 1
    /\ prev = [day |-> day, service_id |-> service_id, result |-> result,
               repeated |-> TRUE]

(***************************************************************************)
(* The booking API: the available-slots endpoint, the creation and the     *)
(* cancellation of a booking                                               *)
(***************************************************************************)
\* a query parameter that is the empty string; None stands for a missing one
Empty == 0

\* a day parameter that is not a date in the format '%Y-%m-%d'
NotADate == 99

DayParams == {None, Empty, NotADate} \cup Days

\* strptime(day, '%Y-%m-%d') of the calculator raises ValueError
StrptimeRaises(dparam) == dparam = NotADate

ServiceIdParams == {None, Empty} \cup ServiceIds

\* Python's `not value` for a query parameter
Falsy_MissingOnly(p) == p = None

Falsy(p) == p = None \/ p = Empty

\* the literals int() accepts among the path arguments tried, with their value
IntTable == ("1" :> 1 @@ "2" :> 2 @@ "3" :> 3 @@ "4" :> 4 @@ "12" :> 12)

BookingIdArgs == {"1", "2", "4", "abc"}

\* str.lower() on the values tried for the by_user parameter
Lower == ("true" :> "true" @@ "True" :> "true" @@ "false" :> "false" @@ "" :> "")

\* the by_user parameter of the query string: no value or one value
ByUserParams == { <<>>, <<"true">>, <<"True">>, <<"false">> }

\* request.query_params.get(name, default)
QueryGet(values, default) == IF values = <<>> THEN default ELSE values[1]

by_user_NoDefault(values) == Lower[QueryGet(values, "")] = "true"

by_user(values) == Lower[QueryGet(values, "true")] = "true"

BookingExists(id) == id \in 1..Len(bookings)

\* Booking.cancel_booking: the flag is stored unless save() raises a database
\* Error; the value is what it returns
cancel_booking_FlagKept(id, error) ==
    /\ bookings' = [bookings EXCEPT ![id].cancelled = TRUE]

\* variant: the flag is flipped
cancel_booking_Toggled(id, error) ==
    /\ bookings' = IF error THEN bookings
                   ELSE [bookings EXCEPT ![id].cancelled = ~@]

cancel_booking(id, error) ==
    /\ bookings' = IF error THEN bookings
                   ELSE [bookings EXCEPT ![id].cancelled = TRUE]

\* CancelBooking.get
CancelBookingGet(arg, values, error) ==
    /\ pc # "loop"
    /\ IF arg \notin DOMAIN IntTable
       THEN /\ response' = Response(400, "Incorrect booking id", <<>>)
            /\ UNCHANGED bookings
       ELSE LET booking_id == IntTable[arg] IN
            IF ~BookingExists(booking_id)
            THEN /\ response' = Response(500, "Booking with booking ID "
                                    \o ToString(booking_id) \o " does not exist", <<>>)
                 /\ UNCHANGED bookings
            ELSE /\ cancel_booking(booking_id, error)
                 /\ response' =
                       IF ~error
                       THEN Response(302, IF by_user(values) THEN "user_bookings"
                                          ELSE "admin_bookings", <<>>)
                       ELSE Response(500, "An error happened during the cancellation of the booking "
                                          \o ToString(booking_id), <<>>)
    /\ UNCHANGED <<contact, services>>
    /\ UNCHANGED callvars

\* ListAvailableBookingSlots.get up to the call of the calculator, whose first
\* statement parses the day
ListAvailableBookingSlotsGet(dparam, sparam) ==
    /\ pc # "loop"
    /\ IF Falsy(dparam) \/ Falsy(sparam)
       THEN /\ response' = Response(400, "Incorrect day or service_id", <<>>)
            /\ UNCHANGED callvars
            /\ UNCHANGED dbvars
       ELSE IF StrptimeRaises(dparam)
       THEN /\ pc' = "raised"
            /\ inital_times' = <<>>
            /\ response' = Response(500, "", <<>>)
            /\ UNCHANGED <<day, service_id, opening_hour, closing_hour,
                           duration_without_break, duration_with_break, booked_slots,
                           cur_time, iterations, result>>
            /\ UNCHANGED dbvars
       ELSE /\ GetAvailableBookingSlots(dparam, sparam)
            /\ response' = IF pc' = "returned"
                           THEN Response(200, "These are the available booking slots", result')
                           ELSE IF pc' = "raised"
                           THEN Response(500, "", <<>>)
                           ELSE NoResponse

\* ... and from the return of the calculator
ListAvailableBookingSlotsRespond ==
    /\ LoopExit
    /\ response' = Response(200, "These are the available booking slots", result')

\* BookingCreate.post
BookingCreatePost(s, d, t) ==
    /\ CreateBooking(s, d, t)
    /\ response' = Response(201, "", <<>>)

ApiSchedules == { <<480, 540>>, <<None, 540>> }

ApiCatalog == (1 :> 15 @@ 2 :> 120)

ApiBookingTimes == {495}

apivars == <<caller, selected, listed, contact_ids, prices, last_service_id, users,
            tokens, clock, extravars>>

InitApi ==
    /\ contact \in ApiSchedules
    /\ services = ApiCatalog
    /\ bookings = <<>>
    /\ InitCall

ApiList ==
    /\ \E dparam \in DayParams, sparam \in ServiceIdParams :
           ListAvailableBookingSlotsGet(dparam, sparam)
    /\ UNCHANGED <<prev, apivars>>

ApiIterate ==
    /\ LoopIteration
    /\ UNCHANGED <<prev, response, apivars>>

ApiRespond ==
    /\ ListAvailableBookingSlotsRespond
    /\ UNCHANGED <<prev, apivars>>

ApiBook ==
    /\ \E d \in Days, t \in ApiBookingTimes : BookingCreatePost(1, d, t)
    /\ UNCHANGED <<prev, apivars>>

ApiCancel ==
    /\ \E arg \in BookingIdArgs, values \in ByUserParams, error \in BOOLEAN :
           CancelBookingGet(arg, values, error)
    /\ UNCHANGED <<prev, apivars>>

NextApi == ApiList \/ ApiIterate \/ ApiRespond \/ ApiBook \/ ApiCancel

SpecApi == InitApi /\ [][NextApi]_vars

(***************************************************************************)
(* C11: a cancelled booking contributes no booked interval: while a query  *)
(* computes, every booked interval it scans belongs to a booking of the    *)
(* requested date that is not cancelled.                                   *)
(***************************************************************************)
C11_CancelledBookingsOccupyNoTime ==
    pc = "loop" =>
        \A j \in 1..Len(booked_slots) :
            \E i \in 1..Len(bookings) :
                /\ bookings[i].date = day
                /\ ~bookings[i].cancelled
                /\ bookings[i].time = booked_slots[j][1]

(***************************************************************************)
(* The booking page: two visitors read the slots, pick an option of the    *)
(* list and submit the form                                                *)
(***************************************************************************)
\* how far down the list a visitor picks
MaxOption == 2

\* the day the booking page lists the slots of: the day after today
Tomorrow == 1

\* the page asks the slots of a day and a service for visitor u
ReadSlots(u, d, sid) ==
    /\ GetAvailableBookingSlots(d, sid)
    /\ caller' = u

\* the option of the time dropdown visitor u picks for the form
SelectSlot(u, i) ==
    /\ pc = "returned"
    /\ caller = u
    /\ i \in 1..Len(result)
    /\ result[i][1] # ""
    /\ selected' = [selected EXCEPT ![u] =
                       [date |-> day, service |-> service_id, time |-> result[i][1]]]

\* the slot of visitor u's form is an option of the list the stored rows give
\* for its day and service now
StillListed(u) ==
    /\ pc = "returned"
    /\ day = selected[u].date
    /\ service_id = selected[u].service
    /\ booked_slots = get_booked_time_slots(day, duration_with_break)
    /\ \E k \in 1..Len(result) : result[k][1] = selected[u].time

\* the POST branch of the booking view: a valid form creates the row; the
\* slots the view computed before are not consulted
BookingPost_Checked(u) ==
    /\ selected[u] # NoSelection
    /\ IF \E i \in 1..Len(bookings) :
              /\ bookings[i].date = selected[u].date
              /\ bookings[i].time = ParseTime(selected[u].time)
              /\ ~bookings[i].cancelled
       THEN UNCHANGED <<dbvars, callvars, listed>>
       ELSE /\ CreateBooking(selected[u].service, selected[u].date,
                             ParseTime(selected[u].time))
            /\ listed' = IF StillListed(u) THEN listed \cup {Len(bookings) + 1}
                         ELSE listed
    /\ selected' = [selected EXCEPT ![u] = NoSelection]

BookingPost(u) ==
    /\ selected[u] # NoSelection
    /\ CreateBooking(selected[u].service, selected[u].date,
                     ParseTime(selected[u].time))
    /\ listed' = IF StillListed(u) THEN listed \cup {Len(bookings) + 1}
                 ELSE listed
    /\ selected' = [selected EXCEPT ![u] = NoSelection]

Salons == { << <<480, 540>>, (1 :> 15 @@ 2 :> 120) >>,
            << <<1320, 1380>>, (1 :> 45 @@ 2 :> 1380) >> }

pagevars == <<prev, response, contact_ids, prices, last_service_id, users, tokens,
             clock, extravars>>

InitPage ==
    /\ \E salon \in Salons : contact = salon[1] /\ services = salon[2]
    /\ bookings = <<>>
    /\ InitCall

PageRead ==
    /\ \E u \in Visitors, sid \in {1, 2} : ReadSlots(u, Tomorrow, sid)
    /\ UNCHANGED <<selected, listed, pagevars>>

PageIterate ==
    /\ LoopIteration
    /\ UNCHANGED <<caller, selected, listed, pagevars>>

PageReturn ==
    /\ LoopExit
    /\ UNCHANGED <<caller, selected, listed, pagevars>>

PageSelect ==
    /\ \E u \in Visitors, i \in 1..MaxOption : SelectSlot(u, i)
    /\ UNCHANGED <<dbvars, callvars, caller, listed, pagevars>>

PagePost ==
    /\ \E u \in Visitors : BookingPost(u)
    /\ UNCHANGED <<caller, pagevars>>

NextPage == PageRead \/ PageIterate \/ PageReturn \/ PageSelect \/ PagePost

SpecPage == InitPage /\ [][NextPage]_vars

\* the list was computed from the bookings stored now
QueryIsCurrent ==
    /\ pc = "returned"
    /\ Open
    /\ booked_slots = get_booked_time_slots(day, duration_with_break)

(***************************************************************************)
(* C12: a booking that is not cancelled and was created for a slot while   *)
(* that slot was listed for its day D and service S keeps the slot out of  *)
(* every later list for (D, S).                                            *)
(***************************************************************************)
C12_BookedListedSlotIsNoLongerListed ==
    QueryIsCurrent =>
        \A i \in listed :
            (/\ ~bookings[i].cancelled
             /\ bookings[i].date = day
             /\ bookings[i].service = service_id)
            => \A k \in 1..Len(result) : result[k][1] # strftime(bookings[i].time)

(***************************************************************************)
(* C13: nothing guards the insert: a submitted form always creates its     *)
(* row, not cancelled, for the date and time it holds, whatever rows are   *)
(* stored already; two visitors who picked the same listed slot both get   *)
(* their booking.                                                          *)
(***************************************************************************)
C13_SubmittedSlotIsAlwaysInserted ==
    [][\A u \in Visitors :
          (selected[u] # NoSelection /\ selected'[u] = NoSelection)
          => bookings' = Append(bookings,
                 [service |-> selected[u].service, date |-> selected[u].date,
                  time |-> ParseTime(selected[u].time), cancelled |-> FALSE])]_vars

\* both rows of a slot that was listed when the first was created and no
\* longer listed when the second was
C13_Witness ==
    /\ Len(bookings) >= 2
    /\ bookings[1].date = bookings[2].date
    /\ bookings[1].time = bookings[2].time
    /\ ~bookings[1].cancelled
    /\ ~bookings[2].cancelled
    /\ 1 \in listed
    /\ 2 \notin listed
    /\ contact = <<480, 540>>

\* a query parameter that was not sent or was sent without a value
MissingOrEmpty(p) == p \in {None, Empty}

\* the answer of the available-slots endpoint carries the calculator's list
AnswersTheList ==
    /\ response'.status = 200
    /\ response'.booking_slots = result'

(***************************************************************************)
(* C14 as stated: a request for the available slots with the day or the    *)
(* service_id missing or empty is answered 400 and computes nothing; with  *)
(* both present the answer is 200 and carries exactly the calculator's     *)
(* list.                                                                   *)
(***************************************************************************)
C14_MissingIs400_PresentIs200 ==
    [][/\ \A dparam \in DayParams, sparam \in ServiceIdParams :
              ListAvailableBookingSlotsGet(dparam, sparam) =>
                  IF MissingOrEmpty(dparam) \/ MissingOrEmpty(sparam)
                  THEN response'.status = 400 /\ UNCHANGED callvars
                  ELSE pc' # "loop" => AnswersTheList
       /\ ListAvailableBookingSlotsRespond => AnswersTheList]_vars

(***************************************************************************)
(* C14 amended: a request for the available slots with the day or the      *)
(* service_id missing or empty is answered 400 and computes nothing; with  *)
(* both present, the answer is 200 with exactly the calculator's list      *)
(* whenever the calculator returns one, and is not a 200 when the          *)
(* calculator raises, for a day that is not a date or for a service id     *)
(* that does not exist.                                                    *)
(***************************************************************************)
C14_MissingIs400_ReturnedListIs200 ==
    [][/\ \A dparam \in DayParams, sparam \in ServiceIdParams :
              ListAvailableBookingSlotsGet(dparam, sparam) =>
                  IF MissingOrEmpty(dparam) \/ MissingOrEmpty(sparam)
                  THEN response'.status = 400 /\ UNCHANGED callvars
                  ELSE /\ pc' = "returned" => AnswersTheList
                       /\ pc' = "raised" => response'.status # 200
       /\ ListAvailableBookingSlotsRespond => AnswersTheList]_vars

\* a request refused with 400 after an answered one, whose list is untouched
C14_Witness ==
    /\ response.status = 400
    /\ response.message = "Incorrect day or service_id"
    /\ pc = "returned"
    /\ Len(RealSlots(result)) >= 1
    /\ bookings # <<>>

\* the path argument is the id of a stored booking
NamesBooking(arg) == arg \in DOMAIN IntTable /\ BookingExists(IntTable[arg])

\* the request flips the flag of the booking it names and nothing else, and is
\* redirected to the bookings page of the side that cancelled
CancelledAndRedirected(arg, values) ==
    /\ bookings' = [bookings EXCEPT ![IntTable[arg]].cancelled = TRUE]
    /\ response'.status = 302
    /\ (values = <<>> \/ values = <<"true">>) => response'.message = "user_bookings"
    /\ values = <<"false">> => response'.message = "admin_bookings"

sitedb == <<contact, contact_ids, services, prices, last_service_id, bookings, users>>

\* permission_classes of the API views
permission_classes_CancelUserOpen ==
    [view \in {"ContactCreate", "ContactRetrieveUpdateDestroy", "ServiceCreate",
               "ServiceList", "ServiceRetrieveUpdateDestroy", "BookingCreate",
               "BookingList", "UserList"} |-> {"IsAdminUser"}]
    @@ [view \in {"CancelUser", "CancelBooking", "ListAvailableBookingSlots"} |-> {}]

permission_classes ==
    [view \in {"ContactCreate", "ContactRetrieveUpdateDestroy", "ServiceCreate",
               "ServiceList", "ServiceRetrieveUpdateDestroy", "BookingCreate",
               "BookingList", "UserList", "CancelUser"} |-> {"IsAdminUser"}]
    @@ [view \in {"CancelBooking", "ListAvailableBookingSlots"} |-> {}]

\* IsAdminUser lets the staff in; is_staff is the flag of the authenticated user
has_permission(view, is_staff) ==
    "IsAdminUser" \in permission_classes[view] => is_staff

PermissionDenied ==
    /\ response' = Response(403, "You do not have permission to perform this action.", <<>>)
    /\ UNCHANGED sitedb

NotFound ==
    /\ response' = Response(404, "Not found.", <<>>)
    /\ UNCHANGED sitedb

\* the fields of the Contact row when there is none
NoContactFields == <<None, None>>

\* Contact.save stores every row under the primary key 'x'
ContactPk == "x"

\* the insert of a row whose primary key is taken raises IntegrityError
IntegrityError_Never(pk) == FALSE

IntegrityError(pk) == pk \in contact_ids

\* ContactCreate.create
ContactCreate_create(is_staff, fields) ==
    IF ~has_permission("ContactCreate", is_staff) THEN PermissionDenied
    ELSE IF IntegrityError(ContactPk)
    THEN /\ response' = Response(500, "The contact information already exist, please update the existing one!", <<>>)
         /\ UNCHANGED sitedb
    ELSE /\ contact_ids' = contact_ids \cup {ContactPk}
         /\ contact' = fields
         /\ response' = Response(201, "", <<>>)
         /\ UNCHANGED <<services, prices, last_service_id, bookings, users>>

\* ContactRetrieveUpdateDestroy: put and patch
ContactUpdate(is_staff, id, fields) ==
    IF ~has_permission("ContactRetrieveUpdateDestroy", is_staff) THEN PermissionDenied
    ELSE IF id \notin contact_ids THEN NotFound
    ELSE /\ contact_ids' = (contact_ids \ {id}) \cup {ContactPk}
         /\ contact' = fields
         /\ response' = Response(200, "", <<>>)
         /\ UNCHANGED <<services, prices, last_service_id, bookings, users>>

\* ContactRetrieveUpdateDestroy: delete
ContactDestroy(is_staff, id) ==
    IF ~has_permission("ContactRetrieveUpdateDestroy", is_staff) THEN PermissionDenied
    ELSE IF id \notin contact_ids THEN NotFound
    ELSE /\ contact_ids' = contact_ids \ {id}
         /\ contact' = NoContactFields
         /\ response' = Response(204, "", <<>>)
         /\ UNCHANGED <<services, prices, last_service_id, bookings, users>>

\* a value of request.data: the field is absent, or holds a string, or holds
\* a JSON array
Absent == [kind |-> "absent", text |-> ""]

Str(text) == [kind |-> "str", text |-> text]

JsonArray == [kind |-> "list", text |-> ""]

\* the strings int() accepts among the prices tried, with their value
PriceTable == ("-1" :> 0 - 1 @@ "0" :> 0 @@ "7" :> 7 @@ "9" :> 9)

\* `price is not None and price != ''`
Supplied(price) == price # Absent /\ price # Str("")

\* how int(price) ends for a supplied price: with a value, with ValueError for
\* a string that is no integer literal, with TypeError for a JSON array
IntOutcome(price) ==
    IF price.kind = "list" THEN "TypeError"
    ELSE IF price.text \notin DOMAIN PriceTable THEN "ValueError"
    ELSE "value"

\* one round of the loop over the price fields: "" when the field passes,
\* the message of the ValidationError, or the exception that is not caught
check_price(price_field, price) ==
    IF Supplied(price)
    THEN IF IntOutcome(price) = "TypeError" THEN "TypeError"
         ELSE IF IntOutcome(price) = "ValueError" THEN "A valid number is required!"
         ELSE IF PriceTable[price.text] <= 0 THEN "Price must be greater than zero!"
         ELSE ""
    ELSE IF price_field = "price_default" THEN "Default price must not be empty!"
    ELSE ""

\* the loop over price_default, price_small, price_big stops at the first error
check_prices(data) ==
    IF check_price("price_default", data.price_default) # ""
    THEN check_price("price_default", data.price_default)
    ELSE IF check_price("price_small", data.price_small) # ""
    THEN check_price("price_small", data.price_small)
    ELSE check_price("price_big", data.price_big)

\* the answer to a request whose prices do not pass: 400 with the message of
\* the ValidationError, or a server error for the TypeError nothing catches
PricesRefused(error) ==
    /\ response' = IF error = "TypeError" THEN Response(500, "", <<>>)
                   ELSE Response(400, error, <<>>)
    /\ UNCHANGED sitedb

\* the value the serializer stores for a price that passed
StoredPrice(price, old) ==
    IF price = Absent THEN old
    ELSE IF price = Str("") THEN None
    ELSE PriceTable[price.text]

\* how many services are ever created
MaxServices == 2

\* ServiceCreate.create
ServiceCreate_create(is_staff, data) ==
    IF ~has_permission("ServiceCreate", is_staff) THEN PermissionDenied
    ELSE IF check_prices(data) # "" THEN PricesRefused(check_prices(data))
    ELSE /\ last_service_id < MaxServices
         /\ last_service_id' = last_service_id + 1
         /\ services' = services @@ (last_service_id' :> data.max_duration)
         /\ prices' = prices @@ (last_service_id' :>
                          [price_default |-> StoredPrice(data.price_default, None),
                           price_small |-> StoredPrice(data.price_small, None),
                           price_big |-> StoredPrice(data.price_big, None)])
         /\ response' = Response(201, "", <<>>)
         /\ UNCHANGED <<contact, contact_ids, bookings, users>>

\* ServiceRetrieveUpdateDestroy.update, for put and patch
ServiceUpdate(is_staff, id, data) ==
    IF ~has_permission("ServiceRetrieveUpdateDestroy", is_staff) THEN PermissionDenied
    ELSE IF check_prices(data) # "" THEN PricesRefused(check_prices(data))
    ELSE IF id \notin DOMAIN services THEN NotFound
    ELSE /\ prices' = [prices EXCEPT ![id] =
                          [price_default |-> StoredPrice(data.price_default, @.price_default),
                           price_small |-> StoredPrice(data.price_small, @.price_small),
                           price_big |-> StoredPrice(data.price_big, @.price_big)]]
         /\ services' = [services EXCEPT ![id] = data.max_duration]
         /\ response' = Response(200, "", <<>>)
         /\ UNCHANGED <<contact, contact_ids, last_service_id, bookings, users>>

\* a booking refers to the service: Booking.service is a foreign key with
\* on_delete=DO_NOTHING
Referenced(id) == \E i \in 1..Len(bookings) : bookings[i].service = id

\* ServiceRetrieveUpdateDestroy: delete
ServiceDestroy(is_staff, id) ==
    IF ~has_permission("ServiceRetrieveUpdateDestroy", is_staff) THEN PermissionDenied
    ELSE IF id \notin DOMAIN services THEN NotFound
    ELSE IF Referenced(id)
    THEN /\ response' = Response(500, "", <<>>)
         /\ UNCHANGED sitedb
    ELSE /\ services' = [i \in DOMAIN services \ {id} |-> services[i]]
         /\ prices' = [i \in DOMAIN prices \ {id} |-> prices[i]]
         /\ response' = Response(204, "", <<>>)
         /\ UNCHANGED <<contact, contact_ids, last_service_id, bookings, users>>

\* ServiceList, BookingList and UserList: the answer names the list it carries
ListGet(is_staff, view) ==
    IF ~has_permission(view, is_staff) THEN PermissionDenied
    ELSE /\ response' = Response(200, view, <<>>)
         /\ UNCHANGED sitedb

\* BookingCreate
BookingCreate_post(is_staff, s, d, t) ==
    IF ~has_permission("BookingCreate", is_staff) THEN PermissionDenied
    ELSE /\ BookingCreatePost(s, d, t)
         /\ UNCHANGED <<contact_ids, prices, last_service_id, users>>

UserExists(id) == id \in DOMAIN users

\* CustomUser.cancel_user: the flag is stored unless save() raises a database
\* Error
cancel_user(id, error) ==
    /\ users' = IF error THEN users ELSE [users EXCEPT ![id].is_active = FALSE]

\* CancelUser.get
CancelUserGet(is_staff, arg, error) ==
    IF ~has_permission("CancelUser", is_staff) THEN PermissionDenied
    ELSE IF arg \notin DOMAIN IntTable
    THEN /\ response' = Response(400, "Incorrect user id", <<>>)
         /\ UNCHANGED sitedb
    ELSE IF ~UserExists(IntTable[arg])
    THEN /\ response' = Response(500, "User with user ID " \o ToString(IntTable[arg])
                                      \o " does not exist", <<>>)
         /\ UNCHANGED sitedb
    ELSE /\ cancel_user(IntTable[arg], error)
         /\ response' = IF ~error THEN Response(302, "admin_page", <<>>)
                        ELSE Response(500, "An error happened during the cancellation of the user "
                                           \o ToString(IntTable[arg]), <<>>)
         /\ UNCHANGED <<contact, contact_ids, services, prices, last_service_id, bookings>>

\* the requests the admin pages send
AdminSchedules == { <<480, 540>>, <<None, 540>> }

AdminPriceData ==
    [price_default : {Str("7"), Str("0")}, price_small : {Absent, Str("9")},
     price_big : {Absent}, max_duration : {15}]

ContactIdArgs == {"x", "y"}

UserIdArgs == {"1", "2", "abc"}

adminrest == <<prev, caller, selected, listed, tokens, clock, extravars>>

ContactCreateRequest(is_staff) ==
    /\ \E fields \in AdminSchedules : ContactCreate_create(is_staff, fields)
    /\ UNCHANGED <<callvars, adminrest>>

ContactUpdateRequest(is_staff) ==
    /\ \E id \in ContactIdArgs, fields \in AdminSchedules : ContactUpdate(is_staff, id, fields)
    /\ UNCHANGED <<callvars, adminrest>>

ContactDestroyRequest(is_staff) ==
    /\ \E id \in ContactIdArgs : ContactDestroy(is_staff, id)
    /\ UNCHANGED <<callvars, adminrest>>

ServiceCreateRequest(is_staff) ==
    /\ \E data \in AdminPriceData : ServiceCreate_create(is_staff, data)
    /\ UNCHANGED <<callvars, adminrest>>

ServiceListRequest(is_staff) ==
    /\ ListGet(is_staff, "ServiceList")
    /\ UNCHANGED <<callvars, adminrest>>

ServiceUpdateRequest(is_staff) ==
    /\ \E id \in ServiceIds, data \in AdminPriceData : ServiceUpdate(is_staff, id, data)
    /\ UNCHANGED <<callvars, adminrest>>

ServiceDestroyRequest(is_staff) ==
    /\ \E id \in ServiceIds : ServiceDestroy(is_staff, id)
    /\ UNCHANGED <<callvars, adminrest>>

BookingCreateRequest(is_staff) ==
    /\ \E s \in ServiceIds : BookingCreate_post(is_staff, s, 1, 495)
    /\ UNCHANGED <<callvars, adminrest>>

BookingListRequest(is_staff) ==
    /\ ListGet(is_staff, "BookingList")
    /\ UNCHANGED <<callvars, adminrest>>

UserListRequest(is_staff) ==
    /\ ListGet(is_staff, "UserList")
    /\ UNCHANGED <<callvars, adminrest>>

CancelUserRequest(is_staff) ==
    /\ \E arg \in UserIdArgs, error \in BOOLEAN : CancelUserGet(is_staff, arg, error)
    /\ UNCHANGED <<callvars, adminrest>>

InitAdmin ==
    /\ InitRequests
    /\ \/ contact_ids = {} /\ contact = NoContactFields
       \/ contact_ids = {ContactPk} /\ contact \in AdminSchedules
    /\ services = <<>>
    /\ prices = <<>>
    /\ last_service_id = 0
    /\ bookings = <<>>
    /\ users = (1 :> [is_active |-> TRUE])
    /\ tokens = {}
    /\ clock = 0

AdminContactCreate == \E is_staff \in BOOLEAN : ContactCreateRequest(is_staff)

AdminContactUpdate == \E is_staff \in BOOLEAN : ContactUpdateRequest(is_staff)

AdminContactDestroy == \E is_staff \in BOOLEAN : ContactDestroyRequest(is_staff)

AdminServiceCreate == \E is_staff \in BOOLEAN : ServiceCreateRequest(is_staff)

AdminServiceList == \E is_staff \in BOOLEAN : ServiceListRequest(is_staff)

AdminServiceUpdate == \E is_staff \in BOOLEAN : ServiceUpdateRequest(is_staff)

AdminServiceDestroy == \E is_staff \in BOOLEAN : ServiceDestroyRequest(is_staff)

AdminBookingCreate == \E is_staff \in BOOLEAN : BookingCreateRequest(is_staff)

AdminBookingList == \E is_staff \in BOOLEAN : BookingListRequest(is_staff)

AdminUserList == \E is_staff \in BOOLEAN : UserListRequest(is_staff)

AdminCancelUser == \E is_staff \in BOOLEAN : CancelUserRequest(is_staff)

NextAdmin ==
    \/ AdminContactCreate \/ AdminContactUpdate \/ AdminContactDestroy
    \/ AdminServiceCreate \/ AdminServiceList \/ AdminServiceUpdate \/ AdminServiceDestroy
    \/ AdminBookingCreate \/ AdminBookingList \/ AdminUserList \/ AdminCancelUser

SpecAdmin == InitAdmin /\ [][NextAdmin]_vars

\* a contact request of the staff
StaffCreatesContact == \E fields \in AdminSchedules : ContactCreate_create(TRUE, fields)

(***************************************************************************)
(* C17: after every contact create, update or delete request there is at   *)
(* most one Contact row and its id is 'x'; a create request of the admin   *)
(* issued while a row exists is answered 500 and leaves the fields of the  *)
(* row unchanged.                                                          *)
(***************************************************************************)
C17_SingleContactRow ==
    [][/\ Cardinality(contact_ids') <= 1
       /\ contact_ids' \subseteq {"x"}
       /\ (StaffCreatesContact /\ contact_ids # {}) =>
              /\ response'.status = 500
              /\ contact' = contact
              /\ contact_ids' = contact_ids]_vars

\* the create request refused because the row exists
C17_Witness ==
    /\ response = Response(500, "The contact information already exist, please update the existing one!", <<>>)
    /\ contact_ids = {"x"}
    /\ contact = <<None, 540>>

\* a request of a user who is authenticated and not staff, to any admin view
NonStaffRequest ==
    \/ ContactCreateRequest(FALSE) \/ ContactUpdateRequest(FALSE)
    \/ ContactDestroyRequest(FALSE)
    \/ ServiceCreateRequest(FALSE) \/ ServiceListRequest(FALSE)
    \/ ServiceUpdateRequest(FALSE) \/ ServiceDestroyRequest(FALSE)
    \/ BookingCreateRequest(FALSE) \/ BookingListRequest(FALSE)
    \/ UserListRequest(FALSE) \/ CancelUserRequest(FALSE)

(***************************************************************************)
(* C19: every request to an admin view (contact create, update, delete;    *)
(* service create, list, update, delete; booking create, list; user list,  *)
(* user cancel) of an authenticated user who is not staff is answered 403  *)
(* and changes no contact, service, booking or user row.                   *)
(***************************************************************************)
C19_NonStaffGets403 ==
    [][NonStaffRequest => (response'.status = 403 /\ UNCHANGED sitedb)]_vars

\* a refused request with rows of every kind stored
C19_Witness ==
    /\ response.status = 403
    /\ contact_ids = {"x"}
    /\ DOMAIN services # {}
    /\ bookings # <<>>
    /\ users[1].is_active

(***************************************************************************)
(* The service requests of the admin, with the prices a body can carry     *)
(***************************************************************************)
PriceData ==
    [price_default : {Absent, Str(""), Str("a"), Str("0"), Str("7"), JsonArray},
     price_small : {Absent, Str("-1"), Str("9"), JsonArray},
     price_big : {Absent, Str("a"), Str("7")},
     max_duration : {15}]

servicerest == <<callvars, prev, caller, selected, listed, tokens, clock, extravars>>

InitService ==
    /\ InitRequests
    /\ contact_ids = {ContactPk}
    /\ contact = <<480, 540>>
    /\ services = <<>>
    /\ prices = <<>>
    /\ last_service_id = 0
    /\ bookings = <<>>
    /\ users = <<>>
    /\ tokens = {}
    /\ clock = 0

ServicePost ==
    /\ \E is_staff \in BOOLEAN, data \in PriceData : ServiceCreate_create(is_staff, data)
    /\ UNCHANGED servicerest

ServicePut ==
    /\ \E is_staff \in BOOLEAN, id \in ServiceIds, data \in PriceData :
           ServiceUpdate(is_staff, id, data)
    /\ UNCHANGED servicerest

ServiceDelete ==
    /\ \E is_staff \in BOOLEAN, id \in ServiceIds : ServiceDestroy(is_staff, id)
    /\ UNCHANGED servicerest

NextService == ServicePost \/ ServicePut \/ ServiceDelete

SpecService == InitService /\ [][NextService]_vars

\* the price is supplied and is not a positive integer: zero, negative or not
\* a number
NotAPositiveInteger(price) ==
    /\ price # Absent
    /\ price # Str("")
    /\ price \notin {Str("7"), Str("9")}

\* the default price is empty
EmptyPrice(price) == price = Absent \/ price = Str("")

\* a body the service views have to reject
BadPrices(data) ==
    \/ NotAPositiveInteger(data.price_default)
    \/ NotAPositiveInteger(data.price_small)
    \/ NotAPositiveInteger(data.price_big)
    \/ EmptyPrice(data.price_default)

\* the admin's create or update request with the body data
StaffSends(data) ==
    \/ ServiceCreate_create(TRUE, data)
    \/ \E id \in ServiceIds : ServiceUpdate(TRUE, id, data)

(***************************************************************************)
(* C20: a service create or update request of the admin in which one of    *)
(* price_default, price_small, price_big is supplied and is not a positive *)
(* integer, or in which the default price is empty, is answered 400 and    *)
(* leaves the stored services unchanged.                                   *)
(***************************************************************************)
C20_BadPricesAre400 ==
    [][\A data \in PriceData :
          (StaffSends(data) /\ BadPrices(data))
          => (response'.status = 400 /\ UNCHANGED <<services, prices>>)]_vars

(***************************************************************************)
(* Accounts: sign-up, the activation link and the cancellation of a user   *)
(***************************************************************************)
\* the primary keys of the users followed: user 1 has an account from the
\* start, user 12 signs up; the rows in between are left out
UserPks == {1, 12}

\* the timestamp of the first token
FirstInstant == 3

\* how far the clock of the token generator advances
MaxClock == 5

\* the age, in ticks of the clock, beyond which check_token refuses a token
PASSWORD_RESET_TIMEOUT == 1

\* str(user.is_active)
StrBool(b) == IF b THEN "True" ELSE "False"

\* AccountActivationTokenGenerator._make_hash_value: the three texts joined
_make_hash_value(pk, timestamp, is_active) ==
    ToString(pk) \o ToString(timestamp) \o StrBool(is_active)

\* a token is its timestamp in clear and the keyed hash of the hash value, here
\* the hash value itself: without the key a request can only repeat the hash
\* of a token that was sent out
\* PasswordResetTokenGenerator.check_token: the hash is recomputed for the
\* user with the timestamp the token shows, then the age is checked
check_token(pk, token) ==
    /\ token.mac = _make_hash_value(pk, token.ts, users[pk].is_active)
    /\ ~(clock - token.ts > PASSWORD_RESET_TIMEOUT)

\* urlsafe_base64_decode of the uid arguments tried; 'aaa' does not decode
\* to text
UidTable == ("MQ" :> 1 @@ "MTI" :> 12 @@ "Mg" :> 2)

UidArgs == {"MQ", "MTI", "Mg", "aaa"}

\* the timestamps a request can show, and the hashes it can carry
TokenTimes == FirstInstant..MaxClock \cup {23}

TokenArgs == [ts : TokenTimes, mac : {l.mac : l \in tokens} \cup {"aaa"}]

\* sign_up: the user is stored inactive and the activation link is sent
sign_up(pk) ==
    /\ pk \notin DOMAIN users
    /\ \A other \in DOMAIN users : other < pk
    /\ users' = users @@ (pk :> [is_active |-> FALSE])
    /\ tokens' = tokens \cup
          {[pk |-> pk, is_active |-> FALSE, ts |-> clock,
            mac |-> _make_hash_value(pk, clock, FALSE)]}
    /\ response' = Response(200, "Your account has been created successfully", <<>>)
    /\ UNCHANGED clock

\* the user the uid names, or None
UserOfUid(uidb64) ==
    IF uidb64 \in DOMAIN UidTable /\ UidTable[uidb64] \in DOMAIN users
    THEN UidTable[uidb64] ELSE None

\* activate_account
activate_account(uidb64, token) ==
    /\ LET user == UserOfUid(uidb64) IN
       IF user # None /\ check_token(user, token)
       THEN /\ users' = [users EXCEPT ![user].is_active = TRUE]
            /\ response' = Response(302, "Your account has been activated successfully, you can log in now.", <<>>)
       ELSE /\ users' = users
            /\ response' = Response(302, "Activation link is invalid or there was a problem activating your account.", <<>>)
    /\ UNCHANGED <<tokens, clock>>

\* a second passes
Tick ==
    /\ clock < MaxClock
    /\ clock' = clock + 1

accountrest == <<callvars, prev, caller, selected, listed, extravars>>

InitAccount ==
    /\ InitRequests
    /\ contact_ids = {ContactPk}
    /\ contact = <<480, 540>>
    /\ services = <<>>
    /\ prices = <<>>
    /\ last_service_id = 0
    /\ bookings = <<>>
    /\ users = (1 :> [is_active |-> TRUE])
    /\ tokens = {}
    /\ clock = FirstInstant

AccountSignUp ==
    /\ \E pk \in UserPks : sign_up(pk)
    /\ UNCHANGED <<contact, contact_ids, services, prices, last_service_id, bookings>>
    /\ UNCHANGED accountrest

AccountActivate ==
    /\ \E uidb64 \in UidArgs, token \in TokenArgs : activate_account(uidb64, token)
    /\ UNCHANGED <<contact, contact_ids, services, prices, last_service_id, bookings>>
    /\ UNCHANGED accountrest

AccountCancel ==
    /\ \E arg \in {"1", "12"}, error \in BOOLEAN : CancelUserGet(TRUE, arg, error)
    /\ UNCHANGED <<tokens, clock>>
    /\ UNCHANGED accountrest

AccountTick ==
    /\ Tick
    /\ UNCHANGED <<dbvars, contact_ids, prices, last_service_id, users, tokens, response>>
    /\ UNCHANGED accountrest

NextAccount == AccountSignUp \/ AccountActivate \/ AccountCancel \/ AccountTick

SpecAccount == InitAccount /\ [][NextAccount]_vars

\* the token is one the generator made for the user pk while the user's
\* is_active flag had the value it has now
GeneratedFor(pk, token) ==
    \E l \in tokens :
        /\ l.pk = pk
        /\ l.is_active = users[pk].is_active
        /\ l.ts = token.ts
        /\ l.mac = token.mac

(***************************************************************************)
(* C18: an activation request sets is_active only for the user whose pk    *)
(* the uid encodes and only with a token generated for that user in its    *)
(* current state; with a uid that does not decode, the uid of no user, or  *)
(* any other token, no user changes and the invalid-link error is          *)
(* reported.                                                               *)
(***************************************************************************)
C18_ActivatesOnlyWithOwnToken ==
    [][\A uidb64 \in UidArgs, token \in TokenArgs :
          activate_account(uidb64, token) =>
              LET user == UserOfUid(uidb64) IN
              /\ users' # users =>
                     /\ user # None
                     /\ users' = [users EXCEPT ![user].is_active = TRUE]
              /\ (user = None \/ ~GeneratedFor(user, token)) =>
                     /\ users' = users
                     /\ response'.message = "Activation link is invalid or there was a problem activating your account."]_vars

(***************************************************************************)
(* One visitor books one slot after the other, in salons whose services    *)
(* all end before closing and before midnight                              *)
(***************************************************************************)
FittingSalons == { << <<480, 600>>, (1 :> 15 @@ 2 :> 120) >>,
                   << <<480, 540>>, (1 :> 15 @@ 2 :> 30) >> }

\* the visitor of this part
Visitor == 1

InitListed ==
    /\ \E salon \in FittingSalons : contact = salon[1] /\ services = salon[2]
    /\ bookings = <<>>
    /\ InitCall

ListedRead ==
    /\ \E sid \in {1, 2} : ReadSlots(Visitor, Tomorrow, sid)
    /\ UNCHANGED <<selected, listed, pagevars>>

ListedSelect ==
    /\ \E i \in 1..MaxOption : SelectSlot(Visitor, i)
    /\ UNCHANGED <<dbvars, callvars, caller, listed, pagevars>>

ListedPost ==
    /\ BookingPost(Visitor)
    /\ UNCHANGED <<caller, pagevars>>

NextListed == ListedRead \/ PageIterate \/ PageReturn \/ ListedSelect \/ ListedPost

SpecListed == InitListed /\ [][NextListed]_vars

\* the interval a booking occupies: its own service's duration and the break
OwnInterval(b) == <<b.time, b.time + services[b.service] + BREAK>>

\* two intervals [s, e) share an instant
Intersect(x, y) == x[1] < y[2] /\ y[1] < x[2]

\* every stored booking was posted for a slot that was listed, for its day and
\* service and the rows stored then, when it was posted
AllBookedAsListed == listed = 1..Len(bookings)

(***************************************************************************)
(* C21: when every booking was created at a slot that the calculator       *)
(* listed for its own service just before, no two non-cancelled bookings   *)
(* of the same date overlap in [time, time + max_duration of its own       *)
(* service + BREAK), also when their services differ in duration.          *)
(***************************************************************************)
C21_ListedBookingsNeverOverlap ==
    AllBookedAsListed =>
        \A i, j \in 1..Len(bookings) :
            (/\ i < j
             /\ bookings[i].date = bookings[j].date
             /\ ~bookings[i].cancelled
             /\ ~bookings[j].cancelled)
            => ~Intersect(OwnInterval(bookings[i]), OwnInterval(bookings[j]))

\* the end, as a time of day, of the interval a booking occupies
OwnEnd(b) == TimeAdd(b.time, services[b.service] + BREAK)

(***************************************************************************)
(* C22: the booked interval a query derives from an existing booking is    *)
(* [booking.time, booking.time + D + BREAK) with D the max_duration of the *)
(* service the booking was made for, whichever service the query is for.   *)
(***************************************************************************)
C22_BookedIntervalHasOwnServiceDuration ==
    pc = "loop" =>
        LET rows == OrderByTime(FilterDate(bookings, day))
        IN  /\ Len(booked_slots) = Len(rows)
            /\ \A j \in 1..Len(rows) :
                   booked_slots[j] = <<rows[j].time, OwnEnd(rows[j])>>

(***************************************************************************)
(* The calculator as one function of its inputs                            *)
(***************************************************************************)
RECURSIVE ScanSlots(_, _, _, _, _, _)
\* lines 94-112 run to the end of the while-loop, at most `fuel` iterations
ScanSlots(c, closing, dwob, dwb, booked, fuel) ==
    IF fuel = 0 \/ ~LoopCondition(c, dwob, closing) THEN <<>>
    ELSE (IF TimeslotAvailable(c, TimeAdd(c, dwb), booked)
          THEN << SlotOption(c, dwob) >>
          ELSE <<>>)
         \o ScanSlots(NextCurTime(c, dwob), closing, dwob, dwb, booked, fuel - 1)

\* lines 80-118 for the hours, the two durations and the booked slots read
Calculate(o, c, dwob, dwb, booked) ==
    IF IsClosed(o, c) THEN ClosedSlots
    ELSE LET found == ScanSlots(o, c, dwob, dwb, booked, MaxIterations)
         IN  IF Len(found) = 0 THEN NoFreeSlots ELSE found

\* get_available_booking_slots(day, service_id) on the stored rows
available_booking_slots(d, sid) ==
    Calculate(get_opening_hour_for_day(contact), get_closing_hour_for_day(contact),
              get_duration_of_service(sid)[1], get_duration_of_service(sid)[2],
              get_booked_time_slots(d, get_duration_of_service(sid)[2]))

(***************************************************************************)
(* The booking form, posted with any field values, the booking endpoint of *)
(* the admin and the prices of the services                                *)
(***************************************************************************)
\* the price of the service for the size of the dog: None when the service has
\* no such price
ServicePrice_DefaultOnly(sid, dog_size) == prices[sid].price_default

ServicePrice(sid, dog_size) ==
    IF dog_size = "medium" \/ dog_size = "" THEN prices[sid].price_default
    ELSE IF dog_size = "small" THEN prices[sid].price_small
    ELSE prices[sid].price_big

\* the Booking row is stored with the price: int(None) raises a TypeError, which
\* neither the view nor the endpoint catches
CreatePricedBooking(sid, dog_size, d, t, created) ==
    IF ServicePrice(sid, dog_size.text) = None
    THEN /\ response' = Response(500, "", <<>>)
         /\ UNCHANGED <<dbvars, callvars, service_prices>>
    ELSE /\ CreateBooking(sid, d, t)
         /\ service_prices' = Append(service_prices,
                [dog_size |-> dog_size,
                 service_price |-> ServicePrice(sid, dog_size.text)])
         /\ response' = created

\* the POST branch of the booking view for the page of service sid: the form
\* is valid when date, time and comment are filled in; a dog size that was
\* not sent is cleaned to ''
booking_POST(sid, data) ==
    IF sid \notin DOMAIN services
    THEN /\ response' = Response(404, "Not found.", <<>>)
         /\ UNCHANGED <<dbvars, callvars, service_prices>>
    ELSE IF data.time = ""
    THEN /\ response' = Response(200, "This field is required.",
                                 available_booking_slots(Tomorrow, sid))
         /\ UNCHANGED <<dbvars, callvars, service_prices>>
    ELSE CreatePricedBooking(sid, Str(data.dog_size.text), data.date, ParseTime(data.time),
                             Response(302, "Your booking has been successful.", <<>>))

\* BookingCreateSerializer.create behind BookingCreate: a dog size that was
\* not sent is None
BookingCreateSerializer_create(data) ==
    CreatePricedBooking(data.service, data.dog_size, data.date, ParseTime(data.time),
                        Response(201, "", <<>>))

\* the salon of this part, its prices, and the values the requests carry
FormSalon == << <<480, 540>>, (1 :> 15 @@ 2 :> 30) >>

FormPrices ==
    (1 :> [price_default |-> 7, price_small |-> 9, price_big |-> None] @@
     2 :> [price_default |-> 7, price_small |-> None, price_big |-> None])

FormData ==
    [dog_size : {Absent, Str("small"), Str("big")}, date : {Tomorrow},
     time : {"", "08:00", "08:30"}]

EndpointData ==
    [service : {1}, dog_size : {Absent, Str("medium")}, date : {Tomorrow}, time : {"08:15"}]

FormPriceData ==
    [price_default : {Str("7"), Str("9")}, price_small : {Absent, Str("")},
     price_big : {Absent}, max_duration : {15}]

formrest == <<prev, caller, selected, listed, contact_ids, last_service_id, users,
              tokens, clock, used, profiles, gallery, context>>

InitForm ==
    /\ InitIdle
    /\ contact = FormSalon[1]
    /\ services = FormSalon[2]
    /\ prices = FormPrices
    /\ bookings = <<>>
    /\ service_prices = <<>>
    /\ contact_ids = {ContactPk}
    /\ last_service_id = 2
    /\ users = <<>>
    /\ tokens = {}
    /\ clock = 0
    /\ used = {}
    /\ profiles = <<>>
    /\ gallery = 0
    /\ context = NoContext

FormPost ==
    /\ \E sid \in ServiceIds, data \in FormData : booking_POST(sid, data)
    /\ UNCHANGED <<prices, formrest>>

FormEndpoint ==
    /\ \E data \in EndpointData : BookingCreateSerializer_create(data)
    /\ UNCHANGED <<prices, formrest>>

FormPrice ==
    /\ \E data \in FormPriceData : ServiceUpdate(TRUE, 1, data)
    /\ UNCHANGED <<callvars, service_prices, formrest>>

NextForm == FormPost \/ FormEndpoint \/ FormPrice

SpecForm == InitForm /\ [][NextForm]_vars

\* the text is the value of a real slot of the list
IsSlotOf(text, slots) == text # "" /\ \E k \in 1..Len(slots) : slots[k][1] = text

(***************************************************************************)
(* C23: the booking view creates a Booking only when the posted date and   *)
(* time are a real slot of the list that get_available_booking_slots       *)
(* returns for that date and the booked service at the time of the         *)
(* request; a posted time that is not in that list, or the empty value of  *)
(* the sentinel, creates no booking.                                       *)
(***************************************************************************)
C23_OnlyListedSlotsAreBooked ==
    [][\A sid \in ServiceIds, data \in FormData :
          booking_POST(sid, data) =>
              (bookings' # bookings
               => IsSlotOf(data.time, available_booking_slots(data.date, sid)))]_vars

\* the list the calculator returns for the hours and durations of the call
\* and the booked slots given
ResultFor(booked) ==
    Calculate(opening_hour, closing_hour, duration_without_break, duration_with_break,
              booked)

\* the booked slots of the call in the order perm
Permuted(perm) == [i \in 1..Len(booked_slots) |-> booked_slots[perm[i]]]

(***************************************************************************)
(* C24: the returned list does not depend on the order of the booked       *)
(* intervals: for every permutation of the booked intervals of a call, in  *)
(* start order or not, the calculator returns the list it returned.        *)
(***************************************************************************)
C24_OrderOfBookedSlotsIsIrrelevant ==
    (Returned /\ Open) =>
        \A perm \in Permutations(1..Len(booked_slots)) :
            ResultFor(Permuted(perm)) = result

\* two different booked slots, one of which keeps candidates off the list
C24_Witness ==
    /\ Returned
    /\ Open
    /\ Len(booked_slots) = 2
    /\ booked_slots[1] # booked_slots[2]
    /\ Len(RealSlots(result)) >= 1
    /\ ResultFor(<<booked_slots[1]>>) # ResultFor(<<booked_slots[2]>>)

\* the booked slot a further booking at time t gives in the call
ExtraTimes == {15, 480, 540, 1390}

ExtraSlot(t) == <<t, TimeAdd(t, duration_with_break)>>

\* the start times of the real slots of a list
SlotValues(r) == {r[k][1] : k \in 1..Len(r)} \ {""}

(***************************************************************************)
(* C25: availability is anti-monotone in the bookings: for the same day,   *)
(* hours and service, the real slots returned with one more booked         *)
(* interval are a subset of the real slots returned without it.            *)
(***************************************************************************)
C25_MoreBookingsNeverAddSlots ==
    (Returned /\ Open) =>
        \A t \in ExtraTimes :
            SlotValues(ResultFor(Append(booked_slots, ExtraSlot(t)))) \subseteq SlotValues(result)

\* a further booking takes a slot off a list that another booking shortened
C25_Witness ==
    /\ Returned
    /\ Open
    /\ Len(booked_slots) >= 1
    /\ SlotValues(result) # {}
    /\ SlotValues(result) # SlotValues(ResultFor(<<>>))
    /\ \E t \in ExtraTimes :
           /\ SlotValues(ResultFor(Append(booked_slots, ExtraSlot(t)))) # SlotValues(result)
           /\ SlotValues(ResultFor(Append(booked_slots, ExtraSlot(t)))) # {}

\* the booking the path argument names is already cancelled
NamesCancelled(arg) == NamesBooking(arg) /\ bookings[IntTable[arg]].cancelled

linkrest == <<callvars, prev, caller, selected, listed, service_prices, profiles,
              gallery, context>>

InitLink ==
    /\ InitIdle
    /\ contact_ids = {ContactPk}
    /\ contact = <<480, 540>>
    /\ services = <<>>
    /\ prices = <<>>
    /\ last_service_id = 0
    /\ bookings = <<>>
    /\ users = (1 :> [is_active |-> TRUE])
    /\ tokens = {}
    /\ clock = FirstInstant
    /\ service_prices = <<>>
    /\ used = {}
    /\ profiles = <<>>
    /\ gallery = 0
    /\ context = NoContext

LinkSignUp ==
    /\ \E pk \in UserPks : sign_up(pk)
    /\ UNCHANGED <<contact, contact_ids, services, prices, last_service_id, bookings, used>>
    /\ UNCHANGED linkrest

\* activate_account, and the record of the pair when it activated the account
LinkActivate ==
    /\ \E uidb64 \in UidArgs, token \in TokenArgs :
           /\ activate_account(uidb64, token)
           /\ used' = IF users' # users THEN used \cup {<<uidb64, token>>} ELSE used
    /\ UNCHANGED <<contact, contact_ids, services, prices, last_service_id, bookings>>
    /\ UNCHANGED linkrest

LinkCancel ==
    /\ \E arg \in {"1", "12"}, error \in BOOLEAN : CancelUserGet(TRUE, arg, error)
    /\ UNCHANGED <<tokens, clock, used>>
    /\ UNCHANGED linkrest

LinkTick ==
    /\ Tick
    /\ UNCHANGED <<dbvars, contact_ids, prices, last_service_id, users, tokens, response,
                   used>>
    /\ UNCHANGED linkrest

NextLink == LinkSignUp \/ LinkActivate \/ LinkCancel \/ LinkTick

SpecLink == InitLink /\ [][NextLink]_vars

(***************************************************************************)
(* C27: an activation link is single-use: once a uid/token pair has        *)
(* activated an account, presenting the same pair again never changes      *)
(* is_active from False to True, also after an administrator has           *)
(* cancelled that user.                                                    *)
(***************************************************************************)
C27_ActivationLinkIsSingleUse ==
    [][\A uidb64 \in UidArgs, token \in TokenArgs :
          (activate_account(uidb64, token) /\ <<uidb64, token>> \in used)
          => users' = users]_vars

(***************************************************************************)
(* The personal data page                                                  *)
(***************************************************************************)
\* str.strip() of the email values tried: forms.EmailField cleans its value
\* of surrounding whitespace
Strip ==
    ("a@x.hu" :> "a@x.hu" @@ " a@x.hu " :> "a@x.hu" @@ "b@x.hu" :> "b@x.hu" @@
     "abc" :> "abc" @@ "" :> "")

\* EmailValidator on the cleaned values
IsEmail(text) == text \in {"a@x.hu", "b@x.hu"}

\* the fields of PersonalDataForm a request posts; last_name and
\* phone_number go the way of first_name
PersonalDataForms ==
    [first_name : {"Ann", "Bea", ""}, email : {"a@x.hu", " a@x.hu ", "b@x.hu", "abc", ""}]

\* form.is_valid(): every field is required, the email must be an address
is_valid(form) == form.first_name # "" /\ IsEmail(Strip[form.email])

\* form.cleaned_data
cleaned_data(form) == [first_name |-> form.first_name, email |-> Strip[form.email]]

\* the link send_activation_link mails to the user pk: make_token(user) at the
\* current timestamp
ActivationLink(pk, is_active) ==
    [pk |-> pk, is_active |-> is_active, ts |-> clock,
     mac |-> _make_hash_value(pk, clock, is_active)]

\* variant: the changed email is stored without deactivating the account
personal_data_POST_StaysActive(pk, form) ==
    /\ pk \in DOMAIN users
    /\ IF ~is_valid(form)
       THEN /\ response' = Response(200, "", <<>>)
            /\ UNCHANGED <<users, profiles, tokens>>
       ELSE /\ profiles' = [profiles EXCEPT ![pk] = cleaned_data(form)]
            /\ response' = Response(302, "Your data has been updated successfully.", <<>>)
            /\ UNCHANGED <<users, tokens>>
    /\ UNCHANGED clock

\* the POST branch of personal_data for the logged-in user pk
personal_data_POST(pk, form) ==
    /\ pk \in DOMAIN users
    /\ IF ~is_valid(form)
       THEN /\ response' = Response(200, "", <<>>)
            /\ UNCHANGED <<users, profiles, tokens>>
       ELSE IF profiles[pk].email # cleaned_data(form).email
       THEN /\ profiles' = [profiles EXCEPT ![pk] = cleaned_data(form)]
            /\ users' = [users EXCEPT ![pk].is_active = FALSE]
            /\ tokens' = tokens \cup {ActivationLink(pk, FALSE)}
            /\ response' = Response(302, "Your data has been updated successfully and a confirmation email has been sent to confirm your new email address.", <<>>)
       ELSE /\ profiles' = [profiles EXCEPT ![pk] = cleaned_data(form)]
            /\ response' = Response(302, "Your data has been updated successfully.", <<>>)
            /\ UNCHANGED <<users, tokens>>
    /\ UNCHANGED clock

\* the user of this part
Member == 1

profilerest == <<callvars, prev, caller, selected, listed, service_prices, used,
                 gallery, context>>

InitProfile ==
    /\ InitIdle
    /\ contact_ids = {ContactPk}
    /\ contact = <<480, 540>>
    /\ services = <<>>
    /\ prices = <<>>
    /\ last_service_id = 0
    /\ bookings = <<>>
    /\ users = (Member :> [is_active |-> TRUE])
    /\ profiles = (Member :> [first_name |-> "Ann", email |-> "a@x.hu"])
    /\ tokens = {}
    /\ clock = FirstInstant
    /\ service_prices = <<>>
    /\ used = {}
    /\ gallery = 0
    /\ context = NoContext

ProfilePost ==
    /\ \E form \in PersonalDataForms : personal_data_POST(Member, form)
    /\ UNCHANGED <<contact, contact_ids, services, prices, last_service_id, bookings>>
    /\ UNCHANGED profilerest

ProfileActivate ==
    /\ \E uidb64 \in {"MQ", "aaa"}, token \in TokenArgs : activate_account(uidb64, token)
    /\ UNCHANGED <<contact, contact_ids, services, prices, last_service_id, bookings,
                   profiles>>
    /\ UNCHANGED profilerest

ProfileCancel ==
    /\ \E error \in BOOLEAN : CancelUserGet(TRUE, "1", error)
    /\ UNCHANGED <<tokens, clock, profiles>>
    /\ UNCHANGED profilerest

ProfileTick ==
    /\ Tick
    /\ UNCHANGED <<dbvars, contact_ids, prices, last_service_id, users, tokens, response,
                   profiles>>
    /\ UNCHANGED profilerest

NextProfile == ProfilePost \/ ProfileActivate \/ ProfileCancel \/ ProfileTick

SpecProfile == InitProfile /\ [][NextProfile]_vars

\* the email address a form submits
SubmittedEmail(form) == Strip[form.email]

\* every field is filled in and the email is an address
WellFormed(form) == form.first_name # "" /\ SubmittedEmail(form) \in {"a@x.hu", "b@x.hu"}

\* a link for the user, made at this instant for an inactive account, is
\* among the links sent
LinkSentNow(pk) ==
    \E l \in tokens' : l.pk = pk /\ l.ts = clock /\ ~l.is_active

(***************************************************************************)
(* C28: a valid personal-data update whose email differs from the stored   *)
(* one stores the user with is_active = False and the new email and sends  *)
(* a new activation link, and the account then stays inactive until        *)
(* activate_account succeeds; a valid update with the stored email leaves  *)
(* is_active and the links as they are; an invalid form changes nothing.   *)
(***************************************************************************)
C28_EmailChangeDeactivatesUntilActivation ==
    [][/\ \A form \in PersonalDataForms :
              personal_data_POST(Member, form) =>
                  IF ~WellFormed(form)
                  THEN users' = users /\ profiles' = profiles /\ tokens' = tokens
                  ELSE IF SubmittedEmail(form) # profiles[Member].email
                  THEN /\ ~users'[Member].is_active
                       /\ profiles'[Member].email = SubmittedEmail(form)
                       /\ LinkSentNow(Member)
                  ELSE /\ users' = users
                       /\ tokens' = tokens
                       /\ profiles'[Member].email = profiles[Member].email
       /\ (~users[Member].is_active /\ users'[Member].is_active) =>
              \E token \in TokenArgs :
                  /\ activate_account("MQ", token)
                  /\ response'.message = "Your account has been activated successfully, you can log in now."]_vars

\* the account is inactive after its email was changed, the link is out
C28_Witness ==
    /\ ~users[Member].is_active
    /\ profiles[Member] = [first_name |-> "Bea", email |-> "b@x.hu"]
    /\ response.message = "Your data has been updated successfully and a confirmation email has been sent to confirm your new email address."
    /\ \E l \in tokens : l.pk = Member /\ l.ts = clock /\ ~l.is_active

\* the price of a Service row for a dog size: no size, '' and 'medium' take
\* the default price, 'small' the small one, anything else the big one
PriceForSize(row, dog_size) ==
    IF dog_size.kind = "absent" \/ dog_size.text \in {"", "medium"} THEN row.price_default
    ELSE IF dog_size.text = "small" THEN row.price_small
    ELSE row.price_big

(***************************************************************************)
(* C29: the service_price stored on a booking is the price of the booked   *)
(* service for the chosen dog size at the moment of creation               *)
(* (price_default for 'medium' or an empty size, price_small for 'small',  *)
(* price_big otherwise), and no later request, an update of the service's  *)
(* prices included, changes the service_price of an existing booking.      *)
(***************************************************************************)
C29_ServicePriceIsFrozenAtBooking ==
    [][/\ \A i \in 1..Len(service_prices) :
              i <= Len(service_prices') /\ service_prices'[i] = service_prices[i]
       /\ Len(service_prices') = Len(bookings')
       /\ Len(bookings') > Len(bookings) =>
              LET id == Len(bookings')
              IN  service_prices'[id].service_price =
                      PriceForSize(prices[bookings'[id].service], service_prices'[id].dog_size)]_vars

\* a booking for a small dog keeps the 9 it was booked for after the service
\* lost its small price and its default price was raised
C29_Witness ==
    /\ Len(service_prices) >= 1
    /\ service_prices[1] = [dog_size |-> Str("small"), service_price |-> 9]
    /\ bookings[1].service = 1
    /\ prices[1].price_small = None
    /\ prices[1].price_default = 9

(***************************************************************************)
(* The gallery page and its page links                                     *)
(***************************************************************************)
PAGINATION_PAGES == 5
GALLERY_IMAGES_PER_PAGE == 12

\* how many images the gallery folder ever holds
MaxImages == 96

\* the values of the page parameter tried, with the result of int()
PageTable ==
    ("0" :> 0 @@ "1" :> 1 @@ "2" :> 2 @@ "3" :> 3 @@ "4" :> 4 @@ "5" :> 5 @@
     "6" :> 6 @@ "7" :> 7 @@ "8" :> 8 @@ "9" :> 9)

PageParams == { <<>>, <<"abc">> } \cup { <<text>> : text \in DOMAIN PageTable }

\* [i for i in range(a, b)]
Range(a, b) == [i \in 1..(b - a) |-> a + i - 1]

\* Paginator.num_pages: an empty list still has its first page
num_pages(count) ==
    IF count = 0 THEN 1
    ELSE (count + GALLERY_IMAGES_PER_PAGE - 1) \div GALLERY_IMAGES_PER_PAGE

\* Paginator.get_page: a number below 1 or beyond the last page gives the
\* last page
get_page(number, n) == IF number < 1 \/ number > n THEN n ELSE number

\* variant: the window around the current page stops one page early
pages_WindowShort(n, number) ==
    LET pages_before_after == PAGINATION_PAGES \div 2
    IN  IF n <= PAGINATION_PAGES THEN Range(1, n + 1)
        ELSE IF n - number < pages_before_after THEN Range(n - PAGINATION_PAGES + 1, n + 1)
        ELSE IF number - pages_before_after <= 0 THEN Range(1, PAGINATION_PAGES + 1)
        ELSE Range(number - pages_before_after, number + pages_before_after)

\* the page links, lines 194-203
pages(n, number) ==
    LET pages_before_after == PAGINATION_PAGES \div 2
    IN  IF n <= PAGINATION_PAGES THEN Range(1, n + 1)
        ELSE IF n - number < pages_before_after THEN Range(n - PAGINATION_PAGES + 1, n + 1)
        ELSE IF number - pages_before_after <= 0 THEN Range(1, PAGINATION_PAGES + 1)
        ELSE Range(number - pages_before_after, number + pages_before_after + 1)

\* GalleryPage.get_context_data: int() of a page parameter that is no number
\* raises a ValueError
GalleryPageGet(values) ==
    LET text == QueryGet(values, "1")
    IN  IF text \notin DOMAIN PageTable
        THEN /\ response' = Response(500, "", <<>>)
             /\ UNCHANGED context
        ELSE LET n == num_pages(gallery)
                 number == get_page(PageTable[text], n)
             IN  /\ context' = [page |-> number, num_pages |-> n, pages |-> pages(n, number)]
                 /\ response' = Response(200, "gallery.html", <<>>)

\* admin_page: an image with a new name is uploaded to the gallery
upload_image_to_gallery ==
    /\ gallery < MaxImages
    /\ gallery' = gallery + 1
    /\ response' = Response(302, "The image has been uploaded successfully.", <<>>)

\* admin_page: an image of the gallery is deleted
delete_image_from_gallery ==
    /\ gallery > 0
    /\ gallery' = gallery - 1
    /\ response' = Response(302, "The image has been deleted successfully.", <<>>)

galleryrest == <<dbvars, callvars, prev, caller, selected, listed, contact_ids, prices,
                 last_service_id, users, tokens, clock, service_prices, used, profiles>>

InitGallery ==
    /\ InitCall
    /\ contact = <<480, 540>>
    /\ services = (1 :> 15 @@ 2 :> 30)
    /\ bookings = <<>>
    /\ service_prices = <<>>
    /\ used = {}
    /\ profiles = <<>>
    /\ gallery = 0
    /\ context = NoContext

GalleryGet ==
    /\ \E values \in PageParams : GalleryPageGet(values)
    /\ UNCHANGED <<gallery, galleryrest>>

GalleryUpload ==
    /\ upload_image_to_gallery
    /\ UNCHANGED <<context, galleryrest>>

GalleryDelete ==
    /\ delete_image_from_gallery
    /\ UNCHANGED <<context, galleryrest>>

NextGallery == GalleryGet \/ GalleryUpload \/ GalleryDelete

SpecGallery == InitGallery /\ [][NextGallery]_vars

\* the smaller of two numbers
Min(a, b) == IF a <= b THEN a ELSE b

(***************************************************************************)
(* C30: for every number of pages n >= 1 and every current page p in 1..n  *)
(* the page links are a contiguous ascending range of exactly              *)
(* min(n, PAGINATION_PAGES) page numbers, all within 1..n, that contains   *)
(* p.                                                                      *)
(***************************************************************************)
C30_PageLinksAreAWindowAroundThePage ==
    context # NoContext =>
        LET n == context.num_pages
            p == context.page
            links == context.pages
        IN  /\ n >= 1
            /\ p \in 1..n
            /\ Len(links) = Min(n, PAGINATION_PAGES)
            /\ \A i \in 1..Len(links) : links[i] = links[1] + i - 1
            /\ \A i \in 1..Len(links) : links[i] \in 1..n
            /\ \E i \in 1..Len(links) : links[i] = p

\* page 4 of 8 with two links on either side
C30_Witness ==
    /\ context = [page |-> 4, num_pages |-> 8, pages |-> <<2, 3, 4, 5, 6>>]
    /\ gallery = 96

====
